---- MODULE Spec2Model ----
(***************************************************************************)
(* A model of the Soroswap tutorial client: the TxMaker facade             *)
(* (src/src/index.ts) and its helpers (src/src/utils.ts).                  *)
(*                                                                         *)
(* Every async method is cut at its awaits: the code between two awaits    *)
(* runs atomically (one JavaScript thread) and is one action.  The         *)
(* services (Horizon, Soroban RPC, the faucet) are the environment: each   *)
(* awaited request either resolves or rejects.                             *)
(***************************************************************************)
EXTENDS Integers, Sequences, FiniteSets, TLC

(***************************************************************************)
(* Bounds of the model.                                                    *)
(***************************************************************************)
\* The largest finite number of NOT_FOUND answers the tracking service gives.
MaxNotFound == 3

\* The calls the model has room for, and those the caller issues.
Calls == {1, 2}
IssuedCalls == {1}

\* Network names a TxMaker may be constructed with.
NetworkNames == {"standalone", "testnet", "Testnet", "mainnet", ""}

\* Readings of Date.now(), in milliseconds.
NowValues == {0, 999, 1000, 86399999}

\* (maxReserveA, maxReserveB) of a deposit, in stroops (1e-7 of a unit).
DepositInputs ==
    { <<200, 100>>, <<1, 3>>, <<1, 25000000>>, <<3, 50000000>>,
      <<1, 18000000>>, <<1, 2000000>>, <<1, 1000000>>, <<7, 1>> }

\* Sequence numbers the caller's own Account object may carry (deposit).
CallerSequences == {0, 1}

\* What the faucet may answer: JSON bodies, and a body that is JSON null.
AlreadyExistsDetail == "createAccountAlreadyExist (AAAAAAAAAGT/////AAAAAQAAAAAAAAAA/////AAAAAA=)"
FaucetBodies ==
    { [null |-> FALSE, successful |-> TRUE, detail |-> ""],
      [null |-> FALSE, successful |-> TRUE, detail |-> AlreadyExistsDetail],
      [null |-> FALSE, successful |-> FALSE, detail |-> AlreadyExistsDetail],
      [null |-> FALSE, successful |-> FALSE, detail |-> "createAccountAlreadyExist"],
      [null |-> FALSE, successful |-> FALSE, detail |-> "Bad Request"],
      [null |-> TRUE, successful |-> FALSE, detail |-> ""] }

(***************************************************************************)
(* Results of code that may throw.                                         *)
(***************************************************************************)
Return(v) == [ok |-> TRUE, value |-> v]
Throw(e) == [ok |-> FALSE, error |-> e]

(***************************************************************************)
(* utils.ts: getNetworkPassphrase                                          *)
(***************************************************************************)
Networks_TESTNET == "Test SDF Network ; September 2015"
Networks_STANDALONE == "Standalone Network ; February 2017"
UnsupportedNetwork == "Unsupported network. Only standalone and testnet are supported."

getNetworkPassphrase_defaulting(network) ==
    CASE network = "testnet" -> Return(Networks_TESTNET)
      [] network = "standalone" -> Return(Networks_STANDALONE)
      [] OTHER -> Return(Networks_STANDALONE)

getNetworkPassphrase(network) ==
    CASE network = "testnet" -> Return(Networks_TESTNET)
      [] network = "standalone" -> Return(Networks_STANDALONE)
      [] OTHER -> Throw(UnsupportedNetwork)

(***************************************************************************)
(* utils.ts: getCurrentTimePlusOneHour                                     *)
(***************************************************************************)
\* The number of milliseconds the code adds to Date.now().
HorizonMs == 36000000
\* One hour, as the comment above the addition writes it.
OneHourMs == 3600000
MsPerSecond == 1000

getCurrentTimePlusOneHour(now) ==
    LET oneHourLater == now + HorizonMs
    IN  oneHourLater \div MsPerSecond

(***************************************************************************)
(* Number.prototype.toFixed on a positive rational num/den.                *)
(*                                                                         *)
(* The code computes in IEEE doubles; the model computes the exact         *)
(* quotient.  A double differs from the exact value by a relative error    *)
(* below 1e-15, which can change the rounded digit only when the exact     *)
(* value lies that close to the midpoint of two candidates.  For the       *)
(* inputs of DepositInputs that happens only at an exact tie, where the    *)
(* model allows both outcomes (tieUp).                                     *)
(***************************************************************************)
RECURSIVE Pow10(_)
Pow10(n) == IF n = 0 THEN 1 ELSE 10 * Pow10(n - 1)

\* <<floor(num * 10^digits / den), remainder>> by long division.
RECURSIVE LongDiv(_, _, _, _)
LongDiv(q, r, den, digits) ==
    IF digits = 0 THEN <<q, r>>
    ELSE LongDiv(q * 10 + ((r * 10) \div den), (r * 10) % den, den, digits - 1)

ScaledFloor(num, den, digits) == LongDiv(num \div den, num % den, den, digits)[1]

ScaledCeil(num, den, digits) ==
    LET d == LongDiv(num \div den, num % den, den, digits)
    IN  IF d[2] = 0 THEN d[1] ELSE d[1] + 1

IsTie(num, den, digits) ==
    LET d == LongDiv(num \div den, num % den, den, digits)
    IN  2 * d[2] = den

\* num * 10^digits / den rounded to the nearest integer.
ScaledRound(num, den, digits, tieUp) ==
    LET d == LongDiv(num \div den, num % den, den, digits)
    IN  IF 2 * d[2] > den \/ (2 * d[2] = den /\ tieUp) THEN d[1] + 1 ELSE d[1]

DigitChars == <<"0", "1", "2", "3", "4", "5", "6", "7", "8", "9">>

RECURSIVE NatToString(_)
NatToString(n) ==
    IF n < 10 THEN DigitChars[n + 1]
    ELSE NatToString(n \div 10) \o DigitChars[(n % 10) + 1]

\* The last `digits` decimal digits of n, zero-padded.
RECURSIVE PaddedDigits(_, _)
PaddedDigits(n, digits) ==
    IF digits = 0 THEN ""
    ELSE PaddedDigits(n \div 10, digits - 1) \o DigitChars[(n % 10) + 1]

\* units / 10^digits written with exactly `digits` decimals.
FixedString(units, digits) ==
    NatToString(units \div Pow10(digits)) \o "." \o PaddedDigits(units % Pow10(digits), digits)

(***************************************************************************)
(* index.ts: the price band of liquidityPoolDeposit                        *)
(*                                                                         *)
(* exactPrice = a / b; the deviation 0.1 is 1/DeviationDen.  minPrice is   *)
(* a*(DeviationDen-1) / (b*DeviationDen), so minPrice * 10^7 is            *)
(* a*(DeviationDen-1) * 10^6 / b: one factor 10 cancels against            *)
(* DeviationDen, which keeps the long division within TLC's integers.      *)
(***************************************************************************)
DeviationDen == 10
FractionDigits == 7

minPriceUnits_truncating(a, b, tieUp) ==
    ScaledFloor(a * (DeviationDen - 1), b, FractionDigits - 1)

minPriceUnits(a, b, tieUp) ==
    ScaledRound(a * (DeviationDen - 1), b, FractionDigits - 1, tieUp)

maxPriceUnits(a, b, tieUp) ==
    ScaledRound(a * (DeviationDen + 1), b, FractionDigits - 1, tieUp)

\* The rounding outcomes a double computation can produce for minPrice / maxPrice.
MinTieChoices(a, b) ==
    IF IsTie(a * (DeviationDen - 1), b, FractionDigits - 1) THEN BOOLEAN ELSE {FALSE}
MaxTieChoices(a, b) ==
    IF IsTie(a * (DeviationDen + 1), b, FractionDigits - 1) THEN BOOLEAN ELSE {FALSE}

(***************************************************************************)
(* Values                                                                  *)
(***************************************************************************)
HorizonMethods == {"payment", "liquidityPoolDeposit", "liquidityPoolWithdraw"}
RouterMethods ==
    {"addLiquiditySoroswap", "removeLiquiditySoroswap", "swapExactTokensForTokensSoroswap"}
SorobanMethods == {"mintTokens"} \cup RouterMethods
FacadeMethods == HorizonMethods \cup SorobanMethods

NOT_FOUND == "NOT_FOUND"
SUCCESS == "SUCCESS"
FAILED == "FAILED"
TerminalStatuses == {SUCCESS, FAILED}

\* The tracking service's script for a hash: NOT_FOUND to the first `count`
\* queries and then a terminal status, or NOT_FOUND to every query.
Forever == [finite |-> FALSE, count |-> 0]
Scripts == {[finite |-> TRUE, count |-> k] : k \in 0 .. MaxNotFound} \cup {Forever}

NoAccount == [origin |-> "none", sequence |-> 0]
NoOp == [function |-> "none", maxAmountA |-> 0, maxAmountB |-> 0,
         minPrice |-> "", maxPrice |-> "", deadline |-> 0]
NoTx == [built |-> FALSE, sequence |-> 0, passphrase |-> "", operation |-> NoOp,
         prepared |-> FALSE, signatures |-> <<>>]
NoHash == [sequence |-> 0, function |-> "none"]
NoResponse == [null |-> TRUE, successful |-> FALSE, detail |-> ""]

\* What an async method's promise settles to.
Undefined == [type |-> "undefined", status |-> "", error |-> ""]
Confirmation(status) == [type |-> "GetTransactionResponse", status |-> status, error |-> ""]
ErrorObject(error) == [type |-> "object", status |-> "error", error |-> error]
Pending == [settled |-> "pending", value |-> Undefined]
Resolved(v) == [settled |-> "resolved", value |-> v]
Rejected(error) == [settled |-> "rejected", value |-> [Undefined EXCEPT !.error = error]]

(***************************************************************************)
(* index.ts: operations                                                    *)
(***************************************************************************)
Operation(function) == [NoOp EXCEPT !.function = function]

RouterFunction(m) ==
    CASE m = "addLiquiditySoroswap" -> "add_liquidity"
      [] m = "removeLiquiditySoroswap" -> "remove_liquidity"
      [] m = "swapExactTokensForTokensSoroswap" -> "swap_exact_tokens_for_tokens"

\* The operation a contract-invocation method builds once its account is loaded.
InvokeOperation(m, now) ==
    IF m = "mintTokens" THEN Operation("mint")
    ELSE [Operation(RouterFunction(m)) EXCEPT !.deadline = getCurrentTimePlusOneHour(now)]

LiquidityPoolDepositOperation(a, b, minTieUp, maxTieUp) ==
    [Operation("liquidityPoolDeposit") EXCEPT
        !.maxAmountA = a, !.maxAmountB = b,
        !.minPrice = FixedString(minPriceUnits(a, b, minTieUp), FractionDigits),
        !.maxPrice = FixedString(maxPriceUnits(a, b, maxTieUp), FractionDigits)]

(***************************************************************************)
(* index.ts: buildTx.  TransactionBuilder.build() gives the envelope the    *)
(* source account's sequence number plus one; sign() appends a signature,  *)
(* recorded with the state of the envelope it was made over.               *)
(***************************************************************************)
Sign(tx) == [tx EXCEPT !.signatures = Append(@, [prepared |-> tx.prepared])]

buildTx(network, source, operation) ==
    LET passphrase == getNetworkPassphrase(network)
    IN  IF ~passphrase.ok THEN passphrase
        ELSE Return(Sign([built |-> TRUE, sequence |-> source.sequence + 1,
                          passphrase |-> passphrase.value, operation |-> operation,
                          prepared |-> FALSE, signatures |-> <<>>]))

\* SorobanRpc.Server.prepareTransaction assembles a new transaction from the
\* simulation: the result carries no signature.
prepareTransaction(tx) == [tx EXCEPT !.prepared = TRUE, !.signatures = <<>>]

\* What the contract-invocation methods hand to sendTransaction.
SentTransaction_raw(tx, preparedTransaction) == tx
SentTransaction(tx, preparedTransaction) == Sign(preparedTransaction)

TxHash(tx) == [sequence |-> tx.sequence, function |-> tx.operation.function]

\* The hash the facade methods pass to waitForConfirmation.
PolledHash_stale(response) == NoHash
PolledHash(response) == response.hash

(***************************************************************************)
(* index.ts: what a method's catch block returns                           *)
(***************************************************************************)
CatchResult(m, error) ==
    IF m \in RouterMethods THEN Undefined ELSE ErrorObject(error)

(***************************************************************************)
(* utils.ts: waitForConfirmation, the loop's exit test                     *)
(***************************************************************************)
LoopBreaks_always(status) == TRUE
LoopBreaks_inverted(status) == status = NOT_FOUND
LoopBreaks_onSuccess(status) == status = SUCCESS
LoopBreaks(status) == status # NOT_FOUND

(***************************************************************************)
(* index.ts: fundAccount, the branch taken on the faucet's JSON body.      *)
(* Reading a property of null throws.                                      *)
(***************************************************************************)
FundBranch_noSentinel(body) ==
    IF body.null THEN Throw("TypeError")
    ELSE IF body.successful THEN Return("SUCCESS! You have a new account :)")
    ELSE Return("ERROR! :(")

FundBranch(body) ==
    IF body.null THEN Throw("TypeError")
    ELSE IF body.successful THEN Return("SUCCESS! You have a new account :)")
    ELSE IF body.detail = AlreadyExistsDetail THEN Return("Account already exists:")
    ELSE Return("ERROR! :(")

(***************************************************************************)
(* State                                                                   *)
(***************************************************************************)
VARIABLES
    network,      \* TxMaker.network
    ledgerSeq,    \* the source account's sequence number on the ledger
    pc,           \* per call: the await it is suspended at
    method,       \* per call: the method called
    source,       \* per call: the Account object the envelope is built from
    clock,        \* per call: the reading of Date.now() it took
    tx,           \* per call: the envelope built by buildTx
    sent,         \* per call: the envelope handed to the submit/send request
    hash,         \* per call: the hash passed to waitForConfirmation
    tracker,      \* per call: the tracking service's answers for the hash
    queries,      \* per call: getTransaction requests made
    sleeps,       \* per call: one-second timers started
    steps,        \* per call: what the call did, in order
    console,      \* per call: what it logged
    body,         \* per call: the faucet's JSON body (fundAccount)
    result        \* per call: what the method's promise settled to

vars == <<network, ledgerSeq, pc, method, source, clock, tx, sent, hash, tracker,
          queries, sleeps, steps, console, body, result>>

NoTracker == [script |-> [finite |-> TRUE, count |-> 0], final |-> SUCCESS, notFound |-> 0]

\* The counters only measure; they stop counting past every finite script.
CountCap == MaxNotFound + 2
Bump(n) == IF n < CountCap THEN n + 1 ELSE n

Init ==
    /\ network \in NetworkNames
    /\ ledgerSeq = 1
    /\ pc = [c \in Calls |-> "idle"]
    /\ method = [c \in Calls |-> "none"]
    /\ source = [c \in Calls |-> NoAccount]
    /\ clock = [c \in Calls |-> 0]
    /\ tx = [c \in Calls |-> NoTx]
    /\ sent = [c \in Calls |-> NoTx]
    /\ hash = [c \in Calls |-> NoHash]
    /\ tracker = [c \in Calls |-> NoTracker]
    /\ queries = [c \in Calls |-> 0]
    /\ sleeps = [c \in Calls |-> 0]
    /\ steps = [c \in Calls |-> <<>>]
    /\ console = [c \in Calls |-> <<>>]
    /\ body = [c \in Calls |-> NoResponse]
    /\ result = [c \in Calls |-> Pending]

(***************************************************************************)
(* How a call ends                                                         *)
(***************************************************************************)
\* The body of an async method returns v.
Returns(c, v) ==
    /\ pc' = [pc EXCEPT ![c] = "done"]
    /\ result' = [result EXCEPT ![c] = Resolved(v)]

\* An error thrown outside every try block rejects the method's promise.
Escapes(c, error) ==
    /\ pc' = [pc EXCEPT ![c] = "done"]
    /\ result' = [result EXCEPT ![c] = Rejected(error)]

\* The catch block of a facade method: it logs and returns.
Catches(c, error) ==
    /\ console' = [console EXCEPT ![c] = Append(@, "ERROR!")]
    /\ Returns(c, CatchResult(method[c], error))

Did(c, events) == steps' = [steps EXCEPT ![c] = @ \o events]

(***************************************************************************)
(* index.ts: the facade methods, up to their first await                   *)
(***************************************************************************)
payment(c) ==
    /\ pc[c] = "idle"
    /\ method' = [method EXCEPT ![c] = "payment"]
    /\ pc' = [pc EXCEPT ![c] = "loadAccount"]
    /\ Did(c, <<"loadAccount">>)
    /\ UNCHANGED <<network, ledgerSeq, source, clock, tx, sent, hash, tracker,
                   queries, sleeps, console, body, result>>

liquidityPoolWithdraw(c) ==
    /\ pc[c] = "idle"
    /\ method' = [method EXCEPT ![c] = "liquidityPoolWithdraw"]
    /\ pc' = [pc EXCEPT ![c] = "loadAccount"]
    /\ Did(c, <<"operation", "loadAccount">>)
    /\ UNCHANGED <<network, ledgerSeq, source, clock, tx, sent, hash, tracker,
                   queries, sleeps, console, body, result>>

\* The caller passes the Account object; buildTx runs inside the try block.
liquidityPoolDeposit(c) ==
    /\ pc[c] = "idle"
    /\ method' = [method EXCEPT ![c] = "liquidityPoolDeposit"]
    /\ \E seq \in CallerSequences, in \in DepositInputs :
         \E minTieUp \in MinTieChoices(in[1], in[2]), maxTieUp \in MaxTieChoices(in[1], in[2]) :
            LET account == [origin |-> "caller", sequence |-> seq]
                operation == LiquidityPoolDepositOperation(in[1], in[2], minTieUp, maxTieUp)
                built == buildTx(network, account, operation)
            IN  /\ source' = [source EXCEPT ![c] = account]
                /\ IF built.ok
                   THEN /\ tx' = [tx EXCEPT ![c] = built.value]
                        /\ sent' = [sent EXCEPT ![c] = built.value]
                        /\ pc' = [pc EXCEPT ![c] = "submitTransaction"]
                        /\ Did(c, <<"operation", "buildTx", "sign", "submit">>)
                        /\ UNCHANGED <<console, result>>
                   ELSE /\ Did(c, <<"operation">>)
                        /\ Catches(c, built.error)
                        /\ UNCHANGED <<tx, sent>>
    /\ UNCHANGED <<network, ledgerSeq, clock, hash, tracker, queries, sleeps, body>>

CallGetAccount(c, m) ==
    /\ pc[c] = "idle"
    /\ method' = [method EXCEPT ![c] = m]
    /\ pc' = [pc EXCEPT ![c] = "getAccount"]
    /\ Did(c, <<"loadAccount">>)
    /\ UNCHANGED <<network, ledgerSeq, source, clock, tx, sent, hash, tracker,
                   queries, sleeps, console, body, result>>

mintTokens(c) == CallGetAccount(c, "mintTokens")
addLiquiditySoroswap(c) == CallGetAccount(c, "addLiquiditySoroswap")
removeLiquiditySoroswap(c) == CallGetAccount(c, "removeLiquiditySoroswap")
swapExactTokensForTokensSoroswap(c) == CallGetAccount(c, "swapExactTokensForTokensSoroswap")

fundAccount(c) ==
    /\ pc[c] = "idle"
    /\ method' = [method EXCEPT ![c] = "fundAccount"]
    /\ pc' = [pc EXCEPT ![c] = "fetch"]
    /\ Did(c, <<"fetch">>)
    /\ UNCHANGED <<network, ledgerSeq, source, clock, tx, sent, hash, tracker,
                   queries, sleeps, console, body, result>>

(***************************************************************************)
(* Horizon loadAccount settles (payment, liquidityPoolWithdraw):           *)
(* the operation and the envelope are built outside the try block, then    *)
(* submitTransaction is called inside it.                                  *)
(***************************************************************************)
HorizonOperation(m) ==
    IF m = "payment" THEN Operation("payment") ELSE Operation("liquidityPoolWithdraw")

\* The Account object loadAccount / getAccount resolves to: the account's
\* sequence number on the ledger at that moment.  Nothing on the client
\* records what another call in flight has loaded.
FetchedAccount_reserving(c) ==
    LET ahead == {d \in Calls \ {c} :
                    source[d].origin = "fetched" /\ hash[d] = NoHash /\ pc[d] # "done"}
    IN  [origin |-> "fetched", sequence |-> ledgerSeq + Cardinality(ahead)]

FetchedAccount(c) == [origin |-> "fetched", sequence |-> ledgerSeq]

loadAccountResolved(c) ==
    /\ pc[c] = "loadAccount"
    /\ LET account == FetchedAccount(c)
           built == buildTx(network, account, HorizonOperation(method[c]))
           opEvent == IF method[c] = "payment" THEN <<"operation">> ELSE <<>>
       IN  /\ source' = [source EXCEPT ![c] = account]
           /\ IF built.ok
              THEN /\ tx' = [tx EXCEPT ![c] = built.value]
                   /\ sent' = [sent EXCEPT ![c] = built.value]
                   /\ pc' = [pc EXCEPT ![c] = "submitTransaction"]
                   /\ Did(c, opEvent \o <<"buildTx", "sign", "submit">>)
                   /\ UNCHANGED result
              ELSE /\ Did(c, opEvent)
                   /\ Escapes(c, built.error)
                   /\ UNCHANGED <<tx, sent>>
    /\ UNCHANGED <<network, ledgerSeq, method, clock, hash, tracker, queries, sleeps,
                   console, body>>

(***************************************************************************)
(* Soroban getAccount settles (the contract-invocation methods): the       *)
(* arguments (with the deadline, for the router) and the envelope are      *)
(* built, then prepareTransaction is called, all outside the try block.    *)
(***************************************************************************)
getAccountResolved(c) ==
    /\ pc[c] = "getAccount"
    /\ \E now \in NowValues :
         LET account == FetchedAccount(c)
             built == buildTx(network, account, InvokeOperation(method[c], now))
         IN  /\ source' = [source EXCEPT ![c] = account]
             /\ clock' = [clock EXCEPT ![c] = IF method[c] \in RouterMethods THEN now ELSE 0]
             /\ IF built.ok
                THEN /\ tx' = [tx EXCEPT ![c] = built.value]
                     /\ pc' = [pc EXCEPT ![c] = "prepareTransaction"]
                     /\ Did(c, <<"operation", "buildTx", "sign", "prepare">>)
                     /\ UNCHANGED result
                ELSE /\ Did(c, <<"operation">>)
                     /\ Escapes(c, built.error)
                     /\ UNCHANGED tx
    /\ UNCHANGED <<network, ledgerSeq, method, sent, hash, tracker, queries, sleeps,
                   console, body>>

\* loadAccount / getAccount is awaited outside the try block.
accountRejected(c) ==
    /\ pc[c] \in {"loadAccount", "getAccount"}
    /\ Escapes(c, "account request failed")
    /\ UNCHANGED <<network, ledgerSeq, method, source, clock, tx, sent, hash, tracker,
                   queries, sleeps, steps, console, body>>

(***************************************************************************)
(* Soroban prepareTransaction settles: the prepared transaction is signed  *)
(* and, inside the try block, handed to sendTransaction.                   *)
(***************************************************************************)
prepareTransactionResolved(c) ==
    /\ pc[c] = "prepareTransaction"
    /\ sent' = [sent EXCEPT ![c] = SentTransaction(tx[c], prepareTransaction(tx[c]))]
    /\ pc' = [pc EXCEPT ![c] = "sendTransaction"]
    /\ Did(c, <<"prepared", "sign", "submit">>)
    /\ UNCHANGED <<network, ledgerSeq, method, source, clock, tx, hash, tracker,
                   queries, sleeps, console, body, result>>

prepareTransactionRejected(c) ==
    /\ pc[c] = "prepareTransaction"
    /\ Escapes(c, "prepareTransaction failed")
    /\ UNCHANGED <<network, ledgerSeq, method, source, clock, tx, sent, hash, tracker,
                   queries, sleeps, steps, console, body>>

(***************************************************************************)
(* The submit request settles (Horizon submitTransaction, Soroban          *)
(* sendTransaction).  The ledger takes an envelope only at the account's   *)
(* next sequence number: Horizon rejects any other; Soroban RPC hands back *)
(* the hash all the same, and the tracking service never observes it.      *)
(* On a response the method calls waitForConfirmation, which makes its     *)
(* first getTransaction request.                                           *)
(***************************************************************************)
NextInSequence(c) == sent[c].sequence = ledgerSeq + 1

ScriptsFor(c) == IF NextInSequence(c) THEN Scripts ELSE {Forever}

submitResolved(c) ==
    /\ pc[c] \in {"submitTransaction", "sendTransaction"}
    /\ pc[c] = "submitTransaction" => NextInSequence(c)
    /\ LET response == [hash |-> TxHash(sent[c])]
       IN  hash' = [hash EXCEPT ![c] = PolledHash(response)]
    /\ \E script \in ScriptsFor(c), final \in TerminalStatuses :
         tracker' = [tracker EXCEPT ![c] = [script |-> script, final |-> final, notFound |-> 0]]
    /\ ledgerSeq' = IF NextInSequence(c) THEN ledgerSeq + 1 ELSE ledgerSeq
    /\ queries' = [queries EXCEPT ![c] = Bump(@)]
    /\ pc' = [pc EXCEPT ![c] = "getTransaction"]
    /\ Did(c, <<"hash", "waitForConfirmation">>)
    /\ UNCHANGED <<network, method, source, clock, tx, sent, sleeps, console, body, result>>

submitRejected(c) ==
    /\ pc[c] \in {"submitTransaction", "sendTransaction"}
    /\ Catches(c, "submit request failed")
    /\ UNCHANGED <<network, ledgerSeq, method, source, clock, tx, sent, hash, tracker,
                   queries, sleeps, steps, body>>

(***************************************************************************)
(* utils.ts: waitForConfirmation                                           *)
(***************************************************************************)
\* What the tracking service answers to the next query for the call's hash.
Answer(c) ==
    IF ~tracker[c].script.finite \/ tracker[c].notFound < tracker[c].script.count
    THEN NOT_FOUND
    ELSE tracker[c].final

\* getTransaction resolved: leave the loop and return, or start the timer.
getTransactionResolved(c) ==
    /\ pc[c] = "getTransaction"
    /\ LET confirmation == Confirmation(Answer(c))
       IN  /\ tracker' = [tracker EXCEPT ![c].notFound =
                             IF confirmation.status = NOT_FOUND THEN Bump(@) ELSE @]
           /\ IF LoopBreaks(confirmation.status)
              THEN /\ Returns(c, confirmation)
                   /\ UNCHANGED sleeps
              ELSE /\ sleeps' = [sleeps EXCEPT ![c] = Bump(@)]
                   /\ pc' = [pc EXCEPT ![c] = "setTimeout"]
                   /\ UNCHANGED result
    /\ UNCHANGED <<network, ledgerSeq, method, source, clock, tx, sent, hash, queries,
                   steps, console, body>>

\* getTransaction rejected: the error leaves waitForConfirmation and is
\* caught by the calling method.
getTransactionRejected(c) ==
    /\ pc[c] = "getTransaction"
    /\ Catches(c, "getTransaction failed")
    /\ UNCHANGED <<network, ledgerSeq, method, source, clock, tx, sent, hash, tracker,
                   queries, sleeps, steps, body>>

\* The one-second timer fired: the loop makes its next request.
setTimeoutFired(c) ==
    /\ pc[c] = "setTimeout"
    /\ queries' = [queries EXCEPT ![c] = Bump(@)]
    /\ pc' = [pc EXCEPT ![c] = "getTransaction"]
    /\ UNCHANGED <<network, ledgerSeq, method, source, clock, tx, sent, hash, tracker,
                   sleeps, steps, console, body, result>>

(***************************************************************************)
(* index.ts: fundAccount                                                   *)
(***************************************************************************)
FundCatches(c) ==
    /\ console' = [console EXCEPT ![c] = Append(@, "ERROR!")]
    /\ Returns(c, Undefined)

fetchResolved(c) ==
    /\ pc[c] = "fetch"
    /\ pc' = [pc EXCEPT ![c] = "json"]
    /\ Did(c, <<"json">>)
    /\ UNCHANGED <<network, ledgerSeq, method, source, clock, tx, sent, hash, tracker,
                   queries, sleeps, console, body, result>>

fetchRejected(c) ==
    /\ pc[c] = "fetch"
    /\ FundCatches(c)
    /\ UNCHANGED <<network, ledgerSeq, method, source, clock, tx, sent, hash, tracker,
                   queries, sleeps, steps, body>>

jsonResolved(c) ==
    /\ pc[c] = "json"
    /\ \E responseJSON \in FaucetBodies :
         LET branch == FundBranch(responseJSON)
         IN  /\ body' = [body EXCEPT ![c] = responseJSON]
             /\ IF branch.ok
                THEN /\ console' = [console EXCEPT ![c] = Append(@, branch.value)]
                     /\ Returns(c, Undefined)
                ELSE FundCatches(c)
    /\ UNCHANGED <<network, ledgerSeq, method, source, clock, tx, sent, hash, tracker,
                   queries, sleeps, steps>>

jsonRejected(c) ==
    /\ pc[c] = "json"
    /\ FundCatches(c)
    /\ UNCHANGED <<network, ledgerSeq, method, source, clock, tx, sent, hash, tracker,
                   queries, sleeps, steps, body>>

(***************************************************************************)
(* Specifications                                                          *)
(***************************************************************************)
Step(c) ==
    \/ payment(c)
    \/ liquidityPoolDeposit(c)
    \/ liquidityPoolWithdraw(c)
    \/ mintTokens(c)
    \/ addLiquiditySoroswap(c)
    \/ removeLiquiditySoroswap(c)
    \/ swapExactTokensForTokensSoroswap(c)
    \/ fundAccount(c)
    \/ loadAccountResolved(c)
    \/ getAccountResolved(c)
    \/ accountRejected(c)
    \/ prepareTransactionResolved(c)
    \/ prepareTransactionRejected(c)
    \/ submitResolved(c)
    \/ submitRejected(c)
    \/ getTransactionResolved(c)
    \/ getTransactionRejected(c)
    \/ setTimeoutFired(c)
    \/ fetchResolved(c)
    \/ fetchRejected(c)
    \/ jsonResolved(c)
    \/ jsonRejected(c)

Next == \E c \in IssuedCalls : Step(c)

Spec == Init /\ [][Next]_vars

\* Every request the poller awaits settles, and every timer it starts fires.
PollerFairness ==
    \A c \in IssuedCalls :
        /\ WF_vars(getTransactionResolved(c) \/ getTransactionRejected(c))
        /\ WF_vars(setTimeoutFired(c))

FairSpec == Spec /\ PollerFairness

\* Two calls on the same source account, in flight together: a payment or a
\* token mint each, every interleaving of their awaits.
ConcStep(c) ==
    \/ payment(c)
    \/ mintTokens(c)
    \/ loadAccountResolved(c)
    \/ getAccountResolved(c)
    \/ accountRejected(c)
    \/ prepareTransactionResolved(c)
    \/ prepareTransactionRejected(c)
    \/ submitResolved(c)
    \/ submitRejected(c)
    \/ getTransactionResolved(c)
    \/ getTransactionRejected(c)
    \/ setTimeoutFired(c)

ConcNext == \E c \in Calls : ConcStep(c)

ConcSpec == Init /\ [][ConcNext]_vars

(***************************************************************************)
(* Properties                                                              *)
(***************************************************************************)
ReturnedConfirmation(c) ==
    /\ result[c].settled = "resolved"
    /\ result[c].value.type = "GetTransactionResponse"

Polling(c) == pc[c] \in {"getTransaction", "setTimeout"}

\* C1: whatever waitForConfirmation hands back to its caller has a status
\* other than NOT_FOUND, and it is the terminal status the tracking service
\* reported; a method that is still waiting, or that ended in its catch
\* block, has returned no confirmation.
C1_NeverReturnsNotFound ==
    \A c \in Calls :
        /\ ReturnedConfirmation(c) =>
              /\ result[c].value.status # NOT_FOUND
              /\ result[c].value.status \in TerminalStatuses
              /\ result[c].value.status = tracker[c].final
        /\ Polling(c) => result[c] = Pending

\* C1 witness: a confirmation was returned after the interim status was seen.
C1_Witness ==
    \E c \in Calls :
        /\ ReturnedConfirmation(c)
        /\ tracker[c].notFound >= 1
        /\ result[c].value.status = FAILED

\* C2 (as claimed): every facade method that has ended resolved to a terminal
\* confirmation or to the object {status: "error", error}; none rejected and
\* none returned anything else.
C2_UniformOutcome ==
    \A c \in Calls :
        (pc[c] = "done" /\ method[c] \in FacadeMethods) =>
            /\ result[c].settled = "resolved"
            /\ \/ /\ result[c].value.type = "GetTransactionResponse"
                  /\ result[c].value.status \in TerminalStatuses
               \/ /\ result[c].value.type = "object"
                  /\ result[c].value.status = "error"

\* C3: with a script of k NOT_FOUND answers and then a terminal one, the
\* poller returns after exactly k + 1 queries and k timers, with the answer to
\* query k + 1; every timer follows a NOT_FOUND answer, and a query follows
\* every timer.
C3_ExactQueriesAndSleeps ==
    \A c \in Calls :
        /\ sleeps[c] = tracker[c].notFound
        /\ pc[c] = "getTransaction" => queries[c] = Bump(sleeps[c])
        /\ pc[c] = "setTimeout" => queries[c] = sleeps[c]
        /\ (ReturnedConfirmation(c) /\ tracker[c].script.finite) =>
              /\ queries[c] = tracker[c].script.count + 1
              /\ sleeps[c] = tracker[c].script.count
              /\ result[c].value.status = tracker[c].final

\* C3 witness: NOT_FOUND twice, then success: two timers, three queries.
C3_Witness ==
    \E c \in Calls :
        /\ ReturnedConfirmation(c)
        /\ tracker[c].script = [finite |-> TRUE, count |-> 2]
        /\ result[c].value.status = SUCCESS
        /\ sleeps[c] = 2
        /\ queries[c] = 3

\* C4: while the tracking service keeps answering NOT_FOUND the poller never
\* returns, however many queries it has made; and once the service's script
\* holds a terminal answer, a poller whose requests settle and whose timers
\* fire leaves the loop.
C4_NoLimitAndEventualReturn ==
    \A c \in IssuedCalls :
        /\ [](~tracker[c].script.finite => ~ReturnedConfirmation(c))
        /\ [](ReturnedConfirmation(c) =>
                 tracker[c].notFound = tracker[c].script.count)
        /\ (Polling(c) /\ tracker[c].script.finite) ~> (pc[c] = "done")

\* C4 witness: the poller still queries after more NOT_FOUND answers than any
\* finite script of the model gives.
C4_Witness ==
    \E c \in Calls :
        /\ ~tracker[c].script.finite
        /\ pc[c] = "getTransaction"
        /\ tracker[c].notFound > MaxNotFound
        /\ result[c] = Pending

\* C5: only "standalone" and "testnet" have a passphrase, the two differ,
\* every other name fails with the unsupported-network error, and an envelope
\* exists only under a supported network and carries that network's
\* passphrase.
SupportedNetworks == {"standalone", "testnet"}

C5_PassphraseOrFailure ==
    /\ \A n \in SupportedNetworks : getNetworkPassphrase(n).ok
    /\ getNetworkPassphrase("testnet").value = Networks_TESTNET
    /\ getNetworkPassphrase("standalone").value = Networks_STANDALONE
    /\ getNetworkPassphrase("testnet").value # getNetworkPassphrase("standalone").value
    /\ \A n \in NetworkNames \ SupportedNetworks :
          getNetworkPassphrase(n) = Throw(UnsupportedNetwork)
    /\ \A c \in Calls :
          /\ tx[c].built =>
                /\ network \in SupportedNetworks
                /\ tx[c].passphrase = getNetworkPassphrase(network).value
                /\ tx[c].passphrase \in {Networks_TESTNET, Networks_STANDALONE}
          /\ network \notin SupportedNetworks =>
                /\ tx[c] = NoTx
                /\ sent[c] = NoTx
                /\ pc[c] \notin {"submitTransaction", "sendTransaction", "prepareTransaction",
                                 "getTransaction", "setTimeout"}

\* C5 witness: buildTx failed under the name "Testnet" and left no envelope.
C5_Witness ==
    \E c \in Calls :
        /\ network = "Testnet"
        /\ pc[c] = "done"
        /\ result[c].value.error = UnsupportedNetwork
        /\ tx[c] = NoTx

\* C6: fundAccount never rejects; it logs the new-account line when the body
\* has successful = true, the already-exists line when the detail is the
\* sentinel, and an error line in every other case, and resolves all the same.
C6_FundAccountOutcome ==
    \A c \in Calls :
        method[c] = "fundAccount" =>
            /\ result[c].settled # "rejected"
            /\ pc[c] = "done" =>
                  /\ result[c] = Resolved(Undefined)
                  /\ Len(console[c]) = 1
                  /\ console[c][1] =
                        IF ~body[c].null /\ body[c].successful
                        THEN "SUCCESS! You have a new account :)"
                        ELSE IF ~body[c].null /\ body[c].detail = AlreadyExistsDetail
                        THEN "Account already exists:"
                        ELSE IF ~body[c].null THEN "ERROR! :(" ELSE "ERROR!"

\* C6 witness: the faucet answered with the already-exists sentinel.
C6_Witness ==
    \E c \in Calls :
        /\ method[c] = "fundAccount"
        /\ pc[c] = "done"
        /\ ~body[c].null
        /\ ~body[c].successful
        /\ body[c].detail = AlreadyExistsDetail
        /\ console[c] = <<"Account already exists:">>

\* The integers nearest to num * 10^digits / den (two of them at a tie).
NearestUnits(num, den, digits) ==
    LET d == LongDiv(num \div den, num % den, den, digits)
    IN  {u \in {d[1], d[1] + 1} :
            \/ u = d[1] /\ 2 * d[2] <= den
            \/ u = d[1] + 1 /\ 2 * d[2] >= den}

\* The deposit's submitted minPrice and maxPrice are the 7-decimal strings of
\* integers umin, umax (in 1e-7) nearest to 0.9 and 1.1 times the price a/b,
\* and, when `ordered`, umin <= price <= umax.
BandOf(operation, ordered) ==
    LET a == operation.maxAmountA
        b == operation.maxAmountB
    IN  \E umin \in NearestUnits(a * (DeviationDen - 1), b, FractionDigits - 1),
           umax \in NearestUnits(a * (DeviationDen + 1), b, FractionDigits - 1) :
            /\ operation.minPrice = FixedString(umin, FractionDigits)
            /\ operation.maxPrice = FixedString(umax, FractionDigits)
            /\ Len(operation.minPrice) = Len(NatToString(umin \div Pow10(FractionDigits))) + 1 + FractionDigits
            /\ Len(operation.maxPrice) = Len(NatToString(umax \div Pow10(FractionDigits))) + 1 + FractionDigits
            /\ ordered =>
                  /\ umin <= ScaledFloor(a, b, FractionDigits)
                  /\ ScaledCeil(a, b, FractionDigits) <= umax

DepositBuilt(c) == tx[c].built /\ tx[c].operation.function = "liquidityPoolDeposit"

\* The price a/b is at least 0.000001.
PriceAtLeastMicro(operation) ==
    ScaledFloor(operation.maxAmountA, operation.maxAmountB, FractionDigits - 1) >= 1

\* C7 (as claimed): for all positive reserves the submitted band, formatted to
\* 7 decimals, satisfies minPrice <= price <= maxPrice.
C7_BandAroundPriceAlways ==
    \A c \in Calls : DepositBuilt(c) => BandOf(tx[c].operation, TRUE)

\* C7 (amended): minPrice and maxPrice are price*(1-0.1) and price*(1+0.1)
\* rounded to exactly 7 decimals; minPrice <= price <= maxPrice holds for the
\* submitted values whenever the price is at least 0.000001; reserves 200 and
\* 100 give 1.8000000 and 2.2000000.
C7_BandAroundPrice ==
    \A c \in Calls :
        DepositBuilt(c) =>
            /\ BandOf(tx[c].operation, PriceAtLeastMicro(tx[c].operation))
            /\ (tx[c].operation.maxAmountA = 200 /\ tx[c].operation.maxAmountB = 100) =>
                  /\ tx[c].operation.minPrice = "1.8000000"
                  /\ tx[c].operation.maxPrice = "2.2000000"

\* C7 witness: a deposit of reserves 200 and 100 was built.
C7_Witness ==
    \E c \in Calls :
        /\ DepositBuilt(c)
        /\ tx[c].operation.maxAmountA = 200
        /\ tx[c].operation.maxAmountB = 100
        /\ tx[c].operation.maxPrice = "2.2000000"
        /\ pc[c] = "submitTransaction"

\* C8 (as claimed): the deadline passed to the router is the current time plus
\* one hour, in whole seconds.
C8_DeadlineIsOneHourAhead ==
    \A c \in Calls :
        (method[c] \in RouterMethods /\ tx[c].built) =>
            /\ tx[c].operation.function = RouterFunction(method[c])
            /\ tx[c].operation.deadline = (clock[c] + OneHourMs) \div MsPerSecond

Precedes(s, a, b) == \E i, j \in 1 .. Len(s) : i < j /\ s[i] = a /\ s[j] = b
Occurs(s, a) == \E i \in 1 .. Len(s) : s[i] = a

\* C9 (as claimed): every method that builds an envelope fetched the account
\* itself, before building the operation and the envelope.
C9_FetchThenOperationThenBuild ==
    \A c \in Calls :
        (method[c] \in FacadeMethods /\ tx[c].built) =>
            /\ source[c].origin = "fetched"
            /\ Precedes(steps[c], "loadAccount", "operation")
            /\ Precedes(steps[c], "operation", "buildTx")

\* C9 (amended): every method but liquidityPoolDeposit builds its envelope on
\* the account it fetched in that call (liquidityPoolDeposit builds on the
\* Account its caller passed and fetches nothing); the operation is built
\* before the envelope (in liquidityPoolWithdraw before the fetch, elsewhere
\* after it); the envelope is built and signed before it is submitted; and
\* the poller is started only after the submit request returned a hash, on
\* the hash of the envelope submitted, never after the request failed.
C9_OrderOfSteps ==
    \A c \in Calls :
        method[c] \in FacadeMethods =>
            /\ tx[c].built =>
                  /\ tx[c].sequence = source[c].sequence + 1
                  /\ Precedes(steps[c], "operation", "buildTx")
                  /\ Precedes(steps[c], "buildTx", "sign")
                  /\ IF method[c] = "liquidityPoolDeposit"
                     THEN source[c].origin = "caller" /\ ~Occurs(steps[c], "loadAccount")
                     ELSE /\ source[c].origin = "fetched"
                          /\ Precedes(steps[c], "loadAccount", "buildTx")
                          /\ IF method[c] = "liquidityPoolWithdraw"
                             THEN Precedes(steps[c], "operation", "loadAccount")
                             ELSE Precedes(steps[c], "loadAccount", "operation")
            /\ sent[c].built =>
                  /\ tx[c].built
                  /\ sent[c].sequence = tx[c].sequence
                  /\ sent[c].operation = tx[c].operation
                  /\ Len(sent[c].signatures) >= 1
                  /\ Precedes(steps[c], "sign", "submit")
            /\ (queries[c] > 0 \/ hash[c] # NoHash) =>
                  /\ sent[c].built
                  /\ hash[c] = TxHash(sent[c])
                  /\ queries[c] > 0
                  /\ Precedes(steps[c], "submit", "hash")
                  /\ Precedes(steps[c], "hash", "waitForConfirmation")
            /\ ~Occurs(steps[c], "hash") =>
                  /\ queries[c] = 0
                  /\ sleeps[c] = 0
                  /\ ~Polling(c)
                  /\ ~ReturnedConfirmation(c)

\* C9 witness: a withdraw that fetched its account is polling the hash of the
\* envelope it submitted.
C9_Witness ==
    \E c \in Calls :
        /\ method[c] = "liquidityPoolWithdraw"
        /\ pc[c] = "setTimeout"
        /\ source[c].origin = "fetched"
        /\ hash[c] = TxHash(sent[c])

AllPrepared(signatures) == \A i \in 1 .. Len(signatures) : signatures[i].prepared

\* C10 (as claimed): in the contract-invocation methods no envelope carries a
\* signature made before it was prepared.
C10_NoSignatureBeforePrepare ==
    \A c \in Calls :
        method[c] \in SorobanMethods =>
            /\ AllPrepared(tx[c].signatures)
            /\ AllPrepared(sent[c].signatures)

\* C10 (amended): in the contract-invocation methods buildTx signs the
\* envelope once before it is prepared; nothing is sent before the prepare
\* step returned, and the envelope that is sent is the prepared one, carrying
\* a signature made after preparation.
C10_PreparedThenSignedThenSent ==
    \A c \in Calls :
        method[c] \in SorobanMethods =>
            /\ tx[c].built => tx[c].signatures = <<[prepared |-> FALSE]>>
            /\ pc[c] \in {"getAccount", "prepareTransaction"} => sent[c] = NoTx
            /\ pc[c] \in {"sendTransaction", "getTransaction", "setTimeout"} => sent[c].built
            /\ sent[c].built =>
                  /\ sent[c].prepared
                  /\ \E i \in 1 .. Len(sent[c].signatures) : sent[c].signatures[i].prepared
                  /\ sent[c].sequence = tx[c].sequence
                  /\ sent[c].operation = tx[c].operation
                  /\ Precedes(steps[c], "prepare", "prepared")
                  /\ Precedes(steps[c], "prepared", "submit")

\* C10 witness: a swap is about to send its prepared and signed envelope.
C10_Witness ==
    \E c \in Calls :
        /\ method[c] = "swapExactTokensForTokensSoroswap"
        /\ pc[c] = "sendTransaction"
        /\ sent[c].prepared
        /\ sent[c].signatures = <<[prepared |-> TRUE]>>

\* Everything the client holds for call c.
CallState(c) ==
    <<pc[c], method[c], source[c], clock[c], tx[c], sent[c], hash[c], queries[c],
      sleeps[c], steps[c], console[c], body[c], result[c]>>

MethodFunction(m) == IF m = "payment" THEN "payment" ELSE "mint"

SubmitPending(c) == pc[c] \in {"submitTransaction", "sendTransaction"}

\* What holds in every state of two calls running together.
C11_Independent ==
    /\ \A c \in Calls :
          \* a call is never made to wait for another one
          /\ pc[c] = "idle" => ENABLED payment(c) /\ ENABLED mintTokens(c)
          /\ pc[c] = "loadAccount" => ENABLED loadAccountResolved(c)
          /\ pc[c] = "getAccount" => ENABLED getAccountResolved(c)
          \* its envelope is its own, and so is the hash it polls
          /\ tx[c].built =>
                /\ source[c].origin = "fetched"
                /\ tx[c].sequence = source[c].sequence + 1
                /\ tx[c].operation.function = MethodFunction(method[c])
          /\ sent[c].built =>
                /\ sent[c].sequence = tx[c].sequence
                /\ sent[c].operation = tx[c].operation
          /\ (hash[c] # NoHash \/ Polling(c)) => hash[c] = TxHash(sent[c])
    \* accounts loaded before any submission returned are the same
    /\ (\A e \in Calls : hash[e] = NoHash) =>
          \A c, d \in Calls :
              (source[c].origin = "fetched" /\ source[d].origin = "fetched") =>
                  /\ source[c].sequence = ledgerSeq
                  /\ source[d].sequence = source[c].sequence
                  /\ (sent[c].built /\ sent[d].built) => sent[c].sequence = sent[d].sequence

\* C11: the client neither serializes nor queues calls on one source account:
\* a call starts and loads whatever the other is doing, two calls that load
\* before any submission returned hold the same sequence number and submit
\* envelopes built on it; each call builds its own envelope and polls the
\* hash of the envelope it submitted, and a step of one call changes nothing
\* the client holds for the other.
C11_ConcurrentCallsRace ==
    /\ []C11_Independent
    /\ [][/\ network' = network
          /\ \A c, d \in Calls :
                (CallState(c)' # CallState(c) /\ CallState(d)' # CallState(d)) => c = d]_vars

\* C11 witness: both calls loaded the same sequence number and each has its
\* own envelope, built on it, with the submit request in flight.
C11_Witness ==
    /\ SubmitPending(1)
    /\ SubmitPending(2)
    /\ method[1] = "payment"
    /\ method[2] = "mintTokens"
    /\ source[1].sequence = source[2].sequence
    /\ sent[1].sequence = sent[2].sequence
    /\ sent[1].operation # sent[2].operation
    /\ ledgerSeq = source[1].sequence

====
